---- MODULE Spec2Model ----
(***************************************************************************)
(* Model of Vcf2Excel (src/vcf2excel/Vcf2Excel.py): the header parser that *)
(* fills eight metadata tables from the "##" lines of a VCF header and the *)
(* writer that stores them as the sheets of one spreadsheet.               *)
(*                                                                         *)
(* A Python string is a sequence of one-character strings, so that the     *)
(* slicing, stripping, splitting and regular-expression matching of the    *)
(* source are computed character by character.                             *)
(***************************************************************************)
EXTENDS Integers, Sequences, FiniteSets, TLC

(***************************************************************************)
(* Bounds of the explored inputs.                                          *)
(***************************************************************************)
\* longest header, in lines, built from the line library
MaxLines == 2
\* longest quoted attribute value, in atoms (a character or an escaped quote)
MaxValLen == 3
\* most fields declared in one generated attribute list
MaxFields == 2
\* longest generated key and value of a key=value line, in characters
MaxKeyLen == 2

(***************************************************************************)
(* Python string primitives used by the source.                            *)
(***************************************************************************)
Range(s) == {s[i] : i \in 1..Len(s)}

\* str.startswith(prefix)
StartsWith(s, p) == Len(s) >= Len(p) /\ SubSeq(s, 1, Len(p)) = p

RECURSIVE LStrip(_, _)
LStrip(s, chars) ==
    IF s # <<>> /\ Head(s) \in chars THEN LStrip(Tail(s), chars) ELSE s

RECURSIVE RStrip(_, _)
RStrip(s, chars) ==
    IF s # <<>> /\ s[Len(s)] \in chars
    THEN RStrip(SubSeq(s, 1, Len(s) - 1), chars)
    ELSE s

\* str.strip(chars): removes every leading and trailing character that is
\* a member of chars; the argument is a set of characters, not a prefix
Strip(s, chars) == RStrip(LStrip(s, chars), chars)

\* index of the first occurrence of sep in s at or after i, 0 when none
RECURSIVE Find(_, _, _)
Find(s, sep, i) ==
    IF i + Len(sep) - 1 > Len(s) THEN 0
    ELSE IF SubSeq(s, i, i + Len(sep) - 1) = sep THEN i
    ELSE Find(s, sep, i + 1)

\* str.split(sep): s cut at every non-overlapping occurrence of sep
RECURSIVE Split(_, _)
Split(s, sep) ==
    LET k == Find(s, sep, 1)
    IN  IF k = 0 THEN <<s>>
        ELSE <<SubSeq(s, 1, k - 1)>> \o Split(SubSeq(s, k + Len(sep), Len(s)), sep)

(***************************************************************************)
(* re.findall(r'(?:[^\s,"]|"(?:\\.|[^"])*")+', line), line 124.            *)
(***************************************************************************)
\* the ASCII characters \s matches that a TLA+ string can hold
Whitespace == {" ", "\t", "\n", "\f", "\r"}

\* [^\s,"]
Plain(c) == c \notin Whitespace \cup {",", "\""}

\* "(?:\\.|[^"])*" entered after the opening quote, at position r: the
\* position of the closing quote the backtracking matcher settles on, 0
\* when the span cannot be closed.  At each character the matcher tries
\* \\. (a backslash and one more character), then [^"], then the closing
\* quote, and returns to the untried alternatives when the rest fails.
RECURSIVE QuoteEnd(_, _)
QuoteEnd(s, r) ==
    IF r > Len(s) THEN 0
    ELSE IF s[r] = "\\"
         THEN LET esc == IF r + 1 <= Len(s) /\ s[r + 1] # "\n"
                         THEN QuoteEnd(s, r + 2) ELSE 0
              IN  IF esc # 0 THEN esc ELSE QuoteEnd(s, r + 1)
    ELSE IF s[r] = "\"" THEN r
    ELSE QuoteEnd(s, r + 1)

\* the greedy outer (...)+ started at p: the position after the match
\* (p itself when nothing matches at p)
RECURSIVE TokenEnd(_, _)
TokenEnd(s, p) ==
    IF p > Len(s) THEN p
    ELSE IF Plain(s[p]) THEN TokenEnd(s, p + 1)
    ELSE IF s[p] = "\""
         THEN LET q == QuoteEnd(s, p + 1)
              IN  IF q # 0 THEN TokenEnd(s, q + 1) ELSE p
    ELSE p

\* the non-overlapping matches, scanning s from position p
RECURSIVE findall(_, _)
findall(s, p) ==
    IF p > Len(s) THEN <<>>
    ELSE LET e == TokenEnd(s, p)
         IN  IF e > p THEN <<SubSeq(s, p, e - 1)>> \o findall(s, e)
             ELSE findall(s, p + 1)

(***************************************************************************)
(* String literals of the source.                                          *)
(***************************************************************************)
\* "##", the marker tested at line 56 and the argument of strip at line 59
Marker == <<"#", "#">>

\* the prefixes tested by startswith, lines 61-91
INFO == <<"I", "N", "F", "O">>
FILTER == <<"F", "I", "L", "T", "E", "R">>
FORMAT == <<"F", "O", "R", "M", "A", "T">>
ALT == <<"A", "L", "T">>
contig == <<"c", "o", "n", "t", "i", "g">>
SAMPLE == <<"S", "A", "M", "P", "L", "E">>
PEDIGREE == <<"P", "E", "D", "I", "G", "R", "E", "E">>

\* the column names of the DataFrames, lines 27-38
Name == <<"N", "a", "m", "e">>
Value == <<"V", "a", "l", "u", "e">>
ID == <<"I", "D">>
Number == <<"N", "u", "m", "b", "e", "r">>
Type == <<"T", "y", "p", "e">>
Description == <<"D", "e", "s", "c", "r", "i", "p", "t", "i", "o", "n">>
Source == <<"S", "o", "u", "r", "c", "e">>
Version == <<"V", "e", "r", "s", "i", "o", "n">>
URL == <<"U", "R", "L">>
Genomes == <<"G", "e", "n", "o", "m", "e", "s">>
Mixture == <<"M", "i", "x", "t", "u", "r", "e">>
Genome == <<"G", "e", "n", "o", "m", "e">>

keypairs_columns == <<Name, Value>>
info_columns == <<ID, Number, Type, Description, Source, Version>>
filter_columns == <<ID, Description>>
format_columns == <<ID, Number, Type, Description>>
alt_columns == <<ID, Description>>
contig_columns == <<ID, URL>>
sample_columns == <<ID, Genomes, Mixture, Description>>
pedigree_columns == <<Name, Genome>>

\* np.nan, the cell of a field the line does not declare: a value no
\* string equals (every string is a sequence of one-character strings)
NaN == <<"NaN">>

(***************************************************************************)
(* multi_key_parse, lines 113-135.  The result is the returned dict, or    *)
(* the exception the body raises.                                          *)
(***************************************************************************)
Raised(e) == [raised |-> e, rec |-> <<>>]
Returned(r) == [raised |-> "", rec |-> r]

\* line 123: line.split('=<')[1][:-1]
BracketBody(parts) == SubSeq(parts[2], 1, Len(parts[2]) - 1)

\* line 125: pair.split('=')
KeyVal(pair) == Split(pair, <<"=">>)

\* lines 126-133: vals_d keeps the last pair of each key; every expected
\* field is looked up in it and is NaN when missing
NewRec(keyvals, fields) ==
    LET last(f) == CHOOSE i \in 1..Len(keyvals) :
                       /\ keyvals[i][1] = f
                       /\ \A j \in (i + 1)..Len(keyvals) : keyvals[j][1] # f
    IN  [f \in Range(fields) |->
            IF \E i \in 1..Len(keyvals) : keyvals[i][1] = f
            THEN keyvals[last(f)][2]
            ELSE NaN]

multi_key_parse(line, fields) ==
    LET parts == Split(line, <<"=", "<">>)
    IN  IF Len(parts) < 2 THEN Raised("IndexError")
        ELSE LET pairs == findall(BracketBody(parts), 1)
                 keyvals == [i \in 1..Len(pairs) |-> KeyVal(pairs[i])]
             IN  IF \E i \in 1..Len(keyvals) : Len(keyvals[i]) < 2
                 THEN Raised("IndexError")
                 ELSE Returned(NewRec(keyvals, fields))

(***************************************************************************)
(* The dispatch of parse_headers, lines 61-98, on the stripped line.       *)
(***************************************************************************)
\* the key=value test accepts any line that has an '='
Category_AnyEquals(line) ==
    IF StartsWith(line, INFO) THEN "INFO"
    ELSE IF StartsWith(line, FILTER) THEN "FILTER"
    ELSE IF StartsWith(line, FORMAT) THEN "FORMAT"
    ELSE IF StartsWith(line, ALT) THEN "ALT"
    ELSE IF StartsWith(line, contig) THEN "contig"
    ELSE IF StartsWith(line, SAMPLE) THEN "SAMPLE"
    ELSE IF StartsWith(line, PEDIGREE) THEN "PEDIGREE"
    ELSE IF Len(Split(line, <<"=">>)) >= 2 THEN "KEYPAIR"
    ELSE "INVALID"

Category(line) ==
    IF StartsWith(line, INFO) THEN "INFO"
    ELSE IF StartsWith(line, FILTER) THEN "FILTER"
    ELSE IF StartsWith(line, FORMAT) THEN "FORMAT"
    ELSE IF StartsWith(line, ALT) THEN "ALT"
    ELSE IF StartsWith(line, contig) THEN "contig"
    ELSE IF StartsWith(line, SAMPLE) THEN "SAMPLE"
    ELSE IF StartsWith(line, PEDIGREE) THEN "PEDIGREE"
    ELSE IF Len(Split(line, <<"=">>)) = 2 THEN "KEYPAIR"
    ELSE "INVALID"

\* s[:n], the slice that stops at the end of a shorter string
Prefix(s, n) == SubSeq(s, 1, IF n < Len(s) THEN n ELSE Len(s))

\* line 56: line[:2] != "##" ends the loop
IsHeaderLine(raw) == Prefix(raw, 2) = Marker

\* line 59: line.strip("##")
StripMarker(raw) == Strip(raw, Range(Marker))

\* lines 108-110: the row parse_keypair appends
KeypairRow(line) ==
    LET kv == Split(line, <<"=">>)
    IN  (Name :> kv[1]) @@ (Value :> kv[2])

(***************************************************************************)
(* The explored headers: every header of at most MaxLines lines of         *)
(* LineLib, and every one-line header of a generated line.                 *)
(***************************************************************************)
Eq == <<"=">>
Lt == <<"<">>
Gt == <<">">>
Comma == <<",">>
Quote == <<"\"">>

RECURSIVE Flatten(_)
Flatten(ss) == IF ss = <<>> THEN <<>> ELSE Head(ss) \o Flatten(Tail(ss))

SeqsUpTo(S, n) == UNION {[1..k -> S] : k \in 0..n}

\* name=value
Field(n, v) == n \o Eq \o v

\* ##CATEGORY=<body>
Bracketed(cat, body) == Marker \o cat \o Eq \o Lt \o body \o Gt

LineLib ==
    { \* ##INFO=<ID=D,Number=1,Description="a, b">
      Bracketed(INFO, Field(ID, <<"D">>) \o Comma \o Field(Number, <<"1">>)
                      \o Comma \o Field(Description, <<"\"", "a", ",", " ", "b", "\"">>)),
      \* ##FILTER=<ID=q, Description="x">
      Bracketed(FILTER, Field(ID, <<"q">>) \o <<",", " ">>
                        \o Field(Description, <<"\"", "x", "\"">>)),
      \* ##FORMAT=<Type=t,ID=G>
      Bracketed(FORMAT, Field(Type, <<"t">>) \o Comma \o Field(ID, <<"G">>)),
      \* ##ALT=<ID=D>
      Bracketed(ALT, Field(ID, <<"D">>)),
      \* ##contig=<ID=c,length=1>
      Bracketed(contig, Field(ID, <<"c">>) \o Comma
                        \o Field(<<"l", "e", "n", "g", "t", "h">>, <<"1">>)),
      \* ##SAMPLE=<ID=s>
      Bracketed(SAMPLE, Field(ID, <<"s">>)),
      \* ##PEDIGREE=<Name=a>
      Bracketed(PEDIGREE, Field(Name, <<"a">>)),
      \* ##k=v
      Marker \o Field(<<"k">>, <<"v">>),
      \* ##Info=x
      Marker \o Field(<<"I", "n", "f", "o">>, <<"x">>),
      \* ##BOGUS
      Marker \o <<"B", "O", "G", "U", "S">>,
      \* ##a=b=c
      Marker \o <<"a", "=", "b", "=", "c">>,
      \* ##info=<ID=D>
      Marker \o <<"i", "n", "f", "o">> \o Eq \o Lt \o Field(ID, <<"D">>) \o Gt,
      \* ##INFO=x
      Marker \o Field(INFO, <<"x">>),
      \* ##INFO=<ID>
      Bracketed(INFO, ID),
      \* #CHROM
      <<"#", "C", "H", "R", "O", "M">>,
      \* the empty line after the last newline
      <<>> }

\* the bracketed categories, with their expected fields
Bracket == { <<INFO, info_columns>>, <<FILTER, filter_columns>>,
             <<FORMAT, format_columns>>, <<ALT, alt_columns>>,
             <<contig, contig_columns>>, <<SAMPLE, sample_columns>> }

\* quoted values: the atoms between the quotes
ValueAtoms == { <<"a">>, <<",">>, <<" ">>, <<"\\", "\"">>, <<"=">> }
QuotedContents == {Flatten(as) : as \in SeqsUpTo(ValueAtoms, MaxValLen)}
QuotedPrefix == Marker \o INFO \o Eq \o Lt \o Field(ID, <<"a">>) \o Comma
                \o Description \o Eq \o Quote
QuotedSuffix == Quote \o Comma \o Field(Source, <<"b">>) \o Gt
\* ##INFO=<ID=a,Description="c",Source=b>
QuotedLine(c) == QuotedPrefix \o c \o QuotedSuffix

\* attribute lists: declarations of distinct names in any order, expected
\* or not, with plain, empty and quoted values
Declarations ==
    { [name |-> ID, value |-> <<"a">>],
      [name |-> Description, value |-> <<"\"", "d", " ", "e", "\"">>],
      [name |-> Description, value |-> <<"\"", "x", "=", "y", "\"">>],
      [name |-> Type, value |-> <<>>],
      [name |-> URL, value |-> <<"u">>],
      [name |-> <<"X">>, value |-> <<"y">>] }
FieldLists ==
    {fl \in SeqsUpTo(Declarations, MaxFields) :
        \A i, j \in 1..Len(fl) : i # j => fl[i].name # fl[j].name}
RECURSIVE Join(_)
Join(fl) ==
    IF fl = <<>> THEN <<>>
    ELSE Field(fl[1].name, fl[1].value)
         \o (IF Len(fl) > 1 THEN Comma ELSE <<>>) \o Join(Tail(fl))
\* ##CATEGORY=<name=value,...>
FieldLine(cat, fl) == Bracketed(cat, Join(fl))

\* key=value lines whose key and value may begin or end with '#'
KeyParts == SeqsUpTo({"k", "#"}, MaxKeyLen)
\* ##name=value
KeypairLine(n, v) == Marker \o Field(n, v)

Headers ==
    SeqsUpTo(LineLib, MaxLines)
    \cup {<<QuotedLine(c)>> : c \in QuotedContents}
    \cup {<<FieldLine(b[1], fl)>> : b \in Bracket, fl \in FieldLists}
    \cup {<<KeypairLine(n, v)>> : n \in KeyParts, v \in KeyParts}

(***************************************************************************)
(* State of one run of Vcf2Excel.__init__, lines 24-42.                    *)
(***************************************************************************)
VARIABLES
    header,        \* self.vcf.raw_header.split('\n'), line 55
    vcf_open,      \* the input handle held by self.vcf, line 26
    md_keypairs, md_info, md_filter, md_format,
    md_alt, md_contig, md_sample, md_pedigree,   \* the tables, lines 27-38
    pc,            \* the method __init__ is in, or how it ended
    idx,           \* the position of the for loop of line 55
    raised,        \* the exception that ended the run, "" when none
    writer_open,   \* the ExcelWriter of line 158 is open
    sheets,        \* the sheets handed to the writer, lines 160-167
    outfile        \* the sheets stored at self.outpath, <<>> when no file

tables == <<md_keypairs, md_info, md_filter, md_format,
            md_alt, md_contig, md_sample, md_pedigree>>
output == <<writer_open, sheets, outfile>>
vars == <<header, vcf_open, tables, pc, idx, raised, output>>

\* lines 24-38: the reader is open and the eight tables are empty
Init ==
    /\ header \in Headers
    /\ vcf_open = TRUE
    /\ md_keypairs = <<>> /\ md_info = <<>> /\ md_filter = <<>>
    /\ md_format = <<>> /\ md_alt = <<>> /\ md_contig = <<>>
    /\ md_sample = <<>> /\ md_pedigree = <<>>
    /\ pc = "parse_headers"
    /\ idx = 1
    /\ raised = ""
    /\ writer_open = FALSE
    /\ sheets = <<>>
    /\ outfile = <<>>

(***************************************************************************)
(* parse_headers, lines 48-98: one action per way an iteration of the      *)
(* for loop can go.                                                        *)
(***************************************************************************)
AtLine == pc = "parse_headers" /\ idx <= Len(header)

\* the line the dispatch sees, after line 59
line == StripMarker(header[idx])

Dispatched(cat) == AtLine /\ IsHeaderLine(header[idx]) /\ Category(line) = cat

\* the loop goes on to the next line, or the exception leaves __init__
Continue(e) ==
    /\ idx' = IF e = "" THEN idx + 1 ELSE idx
    /\ pc' = IF e = "" THEN pc ELSE "failed"
    /\ raised' = e
    /\ UNCHANGED <<header, vcf_open, output>>

\* DataFrame.append(row, ignore_index=True) of the row multi_key_parse
\* returned; nothing is appended when it raised
AppendRec(md, r) == IF r.raised = "" THEN Append(md, r.rec) ELSE md

\* the line without the marker is skipped and the loop goes on
ParseReturn_Continue ==
    /\ AtLine
    /\ ~IsHeaderLine(header[idx])
    /\ idx' = idx + 1
    /\ UNCHANGED <<header, vcf_open, tables, pc, raised, output>>

\* lines 56-57: the first line without the marker ends parse_headers
ParseReturn ==
    /\ AtLine
    /\ ~IsHeaderLine(header[idx])
    /\ pc' = "write_spreadsheet"
    /\ UNCHANGED <<header, vcf_open, tables, idx, raised, output>>

\* line 55: the lines are exhausted
ParseEnd ==
    /\ pc = "parse_headers"
    /\ idx > Len(header)
    /\ pc' = "write_spreadsheet"
    /\ UNCHANGED <<header, vcf_open, tables, idx, raised, output>>

\* lines 61-64
ParseInfo ==
    /\ Dispatched("INFO")
    /\ LET r == multi_key_parse(line, info_columns)
       IN  md_info' = AppendRec(md_info, r) /\ Continue(r.raised)
    /\ UNCHANGED <<md_keypairs, md_filter, md_format, md_alt, md_contig,
                   md_sample, md_pedigree>>

\* lines 66-69
ParseFilter ==
    /\ Dispatched("FILTER")
    /\ LET r == multi_key_parse(line, filter_columns)
       IN  md_filter' = AppendRec(md_filter, r) /\ Continue(r.raised)
    /\ UNCHANGED <<md_keypairs, md_info, md_format, md_alt, md_contig,
                   md_sample, md_pedigree>>

\* lines 71-74
ParseFormat ==
    /\ Dispatched("FORMAT")
    /\ LET r == multi_key_parse(line, format_columns)
       IN  md_format' = AppendRec(md_format, r) /\ Continue(r.raised)
    /\ UNCHANGED <<md_keypairs, md_info, md_filter, md_alt, md_contig,
                   md_sample, md_pedigree>>

\* lines 76-79
ParseAlt ==
    /\ Dispatched("ALT")
    /\ LET r == multi_key_parse(line, alt_columns)
       IN  md_alt' = AppendRec(md_alt, r) /\ Continue(r.raised)
    /\ UNCHANGED <<md_keypairs, md_info, md_filter, md_format, md_contig,
                   md_sample, md_pedigree>>

\* lines 81-84
ParseContig ==
    /\ Dispatched("contig")
    /\ LET r == multi_key_parse(line, contig_columns)
       IN  md_contig' = AppendRec(md_contig, r) /\ Continue(r.raised)
    /\ UNCHANGED <<md_keypairs, md_info, md_filter, md_format, md_alt,
                   md_sample, md_pedigree>>

\* lines 86-89
ParseSample ==
    /\ Dispatched("SAMPLE")
    /\ LET r == multi_key_parse(line, sample_columns)
       IN  md_sample' = AppendRec(md_sample, r) /\ Continue(r.raised)
    /\ UNCHANGED <<md_keypairs, md_info, md_filter, md_format, md_alt,
                   md_contig, md_pedigree>>

\* lines 91-92 and parse_pedigree, lines 137-146
parse_pedigree ==
    /\ Dispatched("PEDIGREE")
    /\ Continue("NotImplementedError")
    /\ UNCHANGED tables

\* the new row is put in front of the table
parse_keypair_Prepend ==
    /\ Dispatched("KEYPAIR")
    /\ md_keypairs' = <<KeypairRow(line)>> \o md_keypairs
    /\ Continue("")
    /\ UNCHANGED <<md_info, md_filter, md_format, md_alt, md_contig,
                   md_sample, md_pedigree>>

\* lines 94-95 and parse_keypair, lines 100-111
parse_keypair ==
    /\ Dispatched("KEYPAIR")
    /\ md_keypairs' = Append(md_keypairs, KeypairRow(line))
    /\ Continue("")
    /\ UNCHANGED <<md_info, md_filter, md_format, md_alt, md_contig,
                   md_sample, md_pedigree>>

\* the invalid line is passed over and the loop goes on
InvalidHeader_Skipped ==
    /\ Dispatched("INVALID")
    /\ Continue("")
    /\ UNCHANGED tables

\* lines 97-98
InvalidHeader ==
    /\ Dispatched("INVALID")
    /\ Continue("ValueError")
    /\ UNCHANGED tables

(***************************************************************************)
(* write_spreadsheet, lines 152-169.                                       *)
(***************************************************************************)
Sheet(n, cols, md) == [sheet_name |-> n, columns |-> cols, rows |-> md]

\* a table without rows gets no sheet
Workbook_SkipEmpty ==
    SelectSeq(<< Sheet("File Metadata", keypairs_columns, md_keypairs),
                 Sheet("INFO", info_columns, md_info),
                 Sheet("FILTER", filter_columns, md_filter),
                 Sheet("FORMAT", format_columns, md_format),
                 Sheet("ALT", alt_columns, md_alt),
                 Sheet("contig", contig_columns, md_contig),
                 Sheet("SAMPLE", sample_columns, md_sample),
                 Sheet("PEDIGREE", pedigree_columns, md_pedigree) >>,
              LAMBDA sh : sh.rows # <<>>)

\* lines 160-167, in the order of the to_excel calls
Workbook ==
    << Sheet("File Metadata", keypairs_columns, md_keypairs),
       Sheet("INFO", info_columns, md_info),
       Sheet("FILTER", filter_columns, md_filter),
       Sheet("FORMAT", format_columns, md_format),
       Sheet("ALT", alt_columns, md_alt),
       Sheet("contig", contig_columns, md_contig),
       Sheet("SAMPLE", sample_columns, md_sample),
       Sheet("PEDIGREE", pedigree_columns, md_pedigree) >>

\* line 158: pd.ExcelWriter(self.outpath, engine='xlsxwriter')
OpenWriter ==
    /\ pc = "write_spreadsheet"
    /\ ~writer_open
    /\ writer_open' = TRUE
    /\ UNCHANGED <<header, vcf_open, tables, pc, idx, raised, sheets, outfile>>

\* line 158: the writer cannot be made for the output path; the exception
\* leaves write_spreadsheet before any writer exists
OpenWriter_fails ==
    /\ pc = "write_spreadsheet"
    /\ ~writer_open
    /\ pc' = "failed"
    /\ raised' = "IOError"
    /\ UNCHANGED <<header, vcf_open, tables, idx, output>>

\* lines 160-167: the next to_excel call
to_excel ==
    /\ pc = "write_spreadsheet"
    /\ writer_open
    /\ Len(sheets) < Len(Workbook)
    /\ sheets' = Append(sheets, Workbook[Len(sheets) + 1])
    /\ UNCHANGED <<header, vcf_open, tables, pc, idx, raised, writer_open, outfile>>

\* line 169: writer.save() stores the workbook and closes the writer
save ==
    /\ pc = "write_spreadsheet"
    /\ writer_open
    /\ Len(sheets) = Len(Workbook)
    /\ outfile' = sheets
    /\ writer_open' = FALSE
    /\ pc' = "done"
    /\ UNCHANGED <<header, vcf_open, tables, idx, raised, sheets>>

\* line 169: the output path cannot be written; the exception leaves
\* write_spreadsheet, which has no handler and no finally
save_fails ==
    /\ pc = "write_spreadsheet"
    /\ writer_open
    /\ Len(sheets) = Len(Workbook)
    /\ pc' = "failed"
    /\ raised' = "IOError"
    /\ UNCHANGED <<header, vcf_open, tables, idx, writer_open, sheets, outfile>>

Next ==
    \/ ParseReturn \/ ParseEnd
    \/ ParseInfo \/ ParseFilter \/ ParseFormat
    \/ ParseAlt \/ ParseContig \/ ParseSample
    \/ parse_pedigree \/ parse_keypair \/ InvalidHeader
    \/ OpenWriter \/ OpenWriter_fails \/ to_excel \/ save \/ save_fails

Spec == Init /\ [][Next]_vars

(***************************************************************************)
(* Vocabulary of the properties.                                           *)
(***************************************************************************)
EndsWith(s, p) == Len(s) >= Len(p) /\ SubSeq(s, Len(s) - Len(p) + 1, Len(s)) = p

\* the number of '=' characters of s
CountEq(s) == Cardinality({i \in 1..Len(s) : s[i] = "="})

StructuredPrefixes == {INFO, FILTER, FORMAT, ALT, contig, SAMPLE, PEDIGREE}
HasStructuredPrefix(s) == \E p \in StructuredPrefixes : StartsWith(s, p)

\* the index of the first line without the marker, Len + 1 when none
StopIndex ==
    IF \E i \in 1..Len(header) : ~IsHeaderLine(header[i])
    THEN CHOOSE i \in 1..Len(header) :
             /\ ~IsHeaderLine(header[i])
             /\ \A j \in 1..(i - 1) : IsHeaderLine(header[j])
    ELSE Len(header) + 1

ParseErrors == {"IndexError", "NotImplementedError", "ValueError"}

TotalRows ==
    Len(md_keypairs) + Len(md_info) + Len(md_filter) + Len(md_format)
    + Len(md_alt) + Len(md_contig) + Len(md_sample) + Len(md_pedigree)

\* the table of a bracketed category
TableOf(cat) ==
    IF cat = INFO THEN md_info
    ELSE IF cat = FILTER THEN md_filter
    ELSE IF cat = FORMAT THEN md_format
    ELSE IF cat = ALT THEN md_alt
    ELSE IF cat = contig THEN md_contig
    ELSE md_sample

\* the row a raw header line gives when it is parsed without error
RowOf(raw) ==
    LET l == StripMarker(raw)
        c == Category(l)
    IN  IF c = "KEYPAIR" THEN KeypairRow(l)
        ELSE IF c = "INFO" THEN multi_key_parse(l, info_columns).rec
        ELSE IF c = "FILTER" THEN multi_key_parse(l, filter_columns).rec
        ELSE IF c = "FORMAT" THEN multi_key_parse(l, format_columns).rec
        ELSE IF c = "ALT" THEN multi_key_parse(l, alt_columns).rec
        ELSE IF c = "contig" THEN multi_key_parse(l, contig_columns).rec
        ELSE multi_key_parse(l, sample_columns).rec

\* the rows of the lines of category c among the first n lines, in order
RECURSIVE RowsOf(_, _)
RowsOf(c, n) ==
    IF n = 0 THEN <<>>
    ELSE IF Category(StripMarker(header[n])) = c
         THEN Append(RowsOf(c, n - 1), RowOf(header[n]))
         ELSE RowsOf(c, n - 1)

(***************************************************************************)
(* C1: parse_headers stops at the first line that does not begin with      *)
(* "##": the loop never goes past that line, so every row of every table   *)
(* is the row of a line before it, and only a line before it can raise.    *)
(***************************************************************************)
C1_StopsAtFirstNonHeaderLine ==
    /\ idx <= StopIndex
    /\ TotalRows <= StopIndex - 1
    /\ raised \in ParseErrors => idx < StopIndex
    /\ \A t \in 1..Len(tables) : \A k \in 1..Len(tables[t]) :
           \E i \in 1..(StopIndex - 1) : tables[t][k] = RowOf(header[i])

\* a finished run whose header has a "##" line after the stopping line
C1_Witness ==
    /\ pc = "done"
    /\ \E i \in (StopIndex + 1)..Len(header) :
           /\ IsHeaderLine(header[i])
           /\ Category(StripMarker(header[i])) = "KEYPAIR"

(***************************************************************************)
(* C2: parsing is fail-fast with no partial output.  A header line that    *)
(* reaches the dispatch and is malformed (no structured prefix and not     *)
(* exactly one '=') or is a PEDIGREE line ends the run at that line: the   *)
(* run fails there with the tables and the output untouched, nothing       *)
(* happens after a failure, and a run that failed in parse_headers has     *)
(* opened no writer, handed over no sheet and stored no file.              *)
(***************************************************************************)
Malformed(l) == ~HasStructuredPrefix(l) /\ CountEq(l) # 1

C2_FailFastNoPartialOutput ==
    /\ [][(/\ AtLine
           /\ IsHeaderLine(header[idx])
           /\ (Malformed(line) \/ StartsWith(line, PEDIGREE)))
          => (/\ pc' = "failed"
              /\ raised' \in {"ValueError", "NotImplementedError"}
              /\ idx' = idx
              /\ UNCHANGED <<tables, output>>)]_vars
    /\ [][pc = "failed" => UNCHANGED vars]_vars
    /\ [](raised \in ParseErrors
          => pc = "failed" /\ ~writer_open /\ sheets = <<>> /\ outfile = <<>>)

\* a run that failed at its second line, after a first line gave a row
C2_Witness ==
    /\ pc = "failed"
    /\ raised \in {"ValueError", "NotImplementedError"}
    /\ idx = 2
    /\ TotalRows = 1
    /\ (Malformed(line) \/ StartsWith(line, PEDIGREE))

(***************************************************************************)
(* Generated one-line headers, read back from the header.                  *)
(***************************************************************************)
\* the header is the single line ##INFO=<ID=a,Description="c",Source=b>
\* of a content of QuotedContents
IsQuotedHeader ==
    /\ Len(header) = 1
    /\ StartsWith(header[1], QuotedPrefix)
    /\ EndsWith(header[1], QuotedSuffix)
    /\ Len(header[1]) >= Len(QuotedPrefix) + Len(QuotedSuffix)
    /\ SubSeq(header[1], Len(QuotedPrefix) + 1,
              Len(header[1]) - Len(QuotedSuffix)) \in QuotedContents

\* its content c
QuotedContent ==
    SubSeq(header[1], Len(QuotedPrefix) + 1, Len(header[1]) - Len(QuotedSuffix))

\* the contents made of ordinary characters, commas, blanks and
\* backslash-escaped quotes only
CommaBlankEscapeContents ==
    {Flatten(as) : as \in SeqsUpTo(ValueAtoms \ {<<"=">>}, MaxValLen)}

\* c holds a comma, a blank or a backslash-escaped quote
HasCommaBlankOrEscape(c) ==
    \/ "," \in Range(c)
    \/ " " \in Range(c)
    \/ \E i \in 1..(Len(c) - 1) : c[i] = "\\" /\ c[i + 1] = "\""

\* the tokens line 124 cuts the attribute list of the one-line header into
QuotedTokens ==
    findall(BracketBody(Split(StripMarker(header[1]), Eq \o Lt)), 1)

(***************************************************************************)
(* C3: a double-quoted span is atomic in multi_key_parse.  For the line    *)
(* ##INFO=<ID=a,Description="c",Source=b>, where c holds commas, blanks or *)
(* backslash-escaped quotes, the attribute list is cut into exactly the    *)
(* three tokens ID=a, Description="c" and Source=b, and the row records    *)
(* the whole "c", quotes kept, as the Description.                         *)
(***************************************************************************)
C3_QuotedSpanIsAtomic ==
    (IsQuotedHeader /\ HasCommaBlankOrEscape(QuotedContent))
    => LET quoted == Quote \o QuotedContent \o Quote
       IN  /\ QuotedTokens = << Field(ID, <<"a">>), Field(Description, quoted),
                                Field(Source, <<"b">>) >>
           /\ idx > 1
                => /\ Len(md_info) = 1
                   /\ md_info[1][Description] = quoted

\* What holds of lines 123-126: the three tokens are cut whole for every
\* content, with an '=' or without, and the row records the whole "c" for
\* every content without an '='.
QuotedSpanIsAtomicUpToEquals ==
    IsQuotedHeader
    => LET quoted == Quote \o QuotedContent \o Quote
       IN  /\ QuotedTokens = << Field(ID, <<"a">>), Field(Description, quoted),
                                Field(Source, <<"b">>) >>
           /\ raised \notin ParseErrors
           /\ (idx > 1 /\ QuotedContent \in CommaBlankEscapeContents)
                => /\ Len(md_info) = 1
                   /\ md_info[1][Description] = quoted
                   /\ md_info[1][ID] = <<"a">>
                   /\ md_info[1][Source] = <<"b">>

(***************************************************************************)
(* C4: an '=' inside a double-quoted value does not corrupt the field.     *)
(* For the line ##INFO=<ID=a,Description="c",Source=b>, c holding '='      *)
(* characters or not, the row records the whole "c" as the Description.    *)
(***************************************************************************)
C4_EqualsInsideQuotesIsKept ==
    (IsQuotedHeader /\ idx > 1)
    => /\ Len(md_info) = 1
       /\ md_info[1][Description] = Quote \o QuotedContent \o Quote

(***************************************************************************)
(* C5: the record multi_key_parse returns has exactly the expected field   *)
(* names of its category as keys.  For the line ##CATEGORY=<fields>, with  *)
(* any list of declarations of distinct names in any order, the row has    *)
(* the category's columns as its keys; a column the line declares holds    *)
(* the declared value, a column it does not declare holds NaN, which is    *)
(* not the empty string, and a declaration of another name is dropped      *)
(* without error.                                                          *)
(***************************************************************************)
FieldHeaders == {<<FieldLine(b[1], fl)>> : b \in Bracket, fl \in FieldLists}

\* the row of the one-line header ##CATEGORY=<fl> of the category b
\* satisfies C5 for the declarations whose value is in the set kept
ExpectedFields(b, fl, kept) ==
    /\ raised \notin ParseErrors
    /\ Len(TableOf(b[1])) = 1
    /\ TotalRows = 1
    /\ DOMAIN TableOf(b[1])[1] = Range(b[2])
    /\ \A f \in Range(b[2]) :
          /\ \A i \in 1..Len(fl) :
                (fl[i].name = f /\ fl[i].value \in kept)
                => TableOf(b[1])[1][f] = fl[i].value
          /\ (\A i \in 1..Len(fl) : fl[i].name # f)
                => TableOf(b[1])[1][f] = NaN
    /\ NaN # <<>>

DeclaredValues == {d.value : d \in Declarations}

C5_RecordHasExpectedFields ==
    (header \in FieldHeaders /\ idx > 1)
    => \A b \in Bracket : \A fl \in FieldLists :
          header = <<FieldLine(b[1], fl)>>
          => ExpectedFields(b, fl, DeclaredValues)

\* What holds of lines 113-135: the keys, the NaN cells and the dropped
\* names are as C5 says for every line, and a declared column holds the
\* declared value whenever that value has no '=' in it.
RecordHasExpectedFieldsUpToEquals ==
    (header \in FieldHeaders /\ idx > 1)
    => \A b \in Bracket : \A fl \in FieldLists :
          header = <<FieldLine(b[1], fl)>>
          => ExpectedFields(b, fl, {v \in DeclaredValues : CountEq(v) = 0})

(***************************************************************************)
(* C6: after every successfully processed prefix of the header, each       *)
(* table holds exactly the rows of the processed lines of its category,    *)
(* one per line and in line order; so the tables hold as many rows as      *)
(* lines were processed, and the PEDIGREE table is empty.                  *)
(***************************************************************************)
C6_TablesAreProcessedLinesInOrder ==
    /\ md_keypairs = RowsOf("KEYPAIR", idx - 1)
    /\ md_info = RowsOf("INFO", idx - 1)
    /\ md_filter = RowsOf("FILTER", idx - 1)
    /\ md_format = RowsOf("FORMAT", idx - 1)
    /\ md_alt = RowsOf("ALT", idx - 1)
    /\ md_contig = RowsOf("contig", idx - 1)
    /\ md_sample = RowsOf("SAMPLE", idx - 1)
    /\ md_pedigree = <<>>
    /\ TotalRows = idx - 1

\* two processed lines of one category with different rows
C6_Witness ==
    /\ idx = 3
    /\ Len(md_keypairs) = 2
    /\ md_keypairs[1] # md_keypairs[2]

(***************************************************************************)
(* C7: the dispatch is a case-sensitive prefix test.  A line with one of   *)
(* the six bracketed prefixes touches only the table of that prefix (it    *)
(* gains one row, or the attribute list raises); a PEDIGREE line raises    *)
(* NotImplementedError; a row is added to the key=value table only for a   *)
(* line with no structured prefix and exactly one '='; a line with no      *)
(* structured prefix and zero or several '=' raises ValueError.            *)
(***************************************************************************)
OnlyGrows(t) ==
    /\ \A u \in 1..Len(tables) : u # t => tables'[u] = tables[u]
    /\ \/ Len(tables'[t]) = Len(tables[t]) + 1 /\ raised' = ""
       \/ tables'[t] = tables[t] /\ raised' = "IndexError"

C7_Dispatch ==
    [][(AtLine /\ IsHeaderLine(header[idx]))
       => /\ StartsWith(line, INFO) => OnlyGrows(2)
          /\ StartsWith(line, FILTER) => OnlyGrows(3)
          /\ StartsWith(line, FORMAT) => OnlyGrows(4)
          /\ StartsWith(line, ALT) => OnlyGrows(5)
          /\ StartsWith(line, contig) => OnlyGrows(6)
          /\ StartsWith(line, SAMPLE) => OnlyGrows(7)
          /\ StartsWith(line, PEDIGREE)
                => raised' = "NotImplementedError" /\ UNCHANGED tables
          /\ md_keypairs' # md_keypairs
                => ~HasStructuredPrefix(line) /\ CountEq(line) = 1
          /\ (~HasStructuredPrefix(line) /\ CountEq(line) = 1)
                => /\ Len(md_keypairs') = Len(md_keypairs) + 1
                   /\ raised' = ""
          /\ (~HasStructuredPrefix(line) /\ CountEq(line) # 1)
                => raised' = "ValueError" /\ UNCHANGED tables]_vars

\* a lower-case "info" line was rejected after a key=value line was taken
C7_Witness ==
    /\ raised = "ValueError"
    /\ idx = 2
    /\ Len(md_keypairs) = 1
    /\ StartsWith(line, <<"i", "n", "f", "o">>)

(***************************************************************************)
(* C8: when the header parse ends without error, write_spreadsheet hands   *)
(* the writer the eight sheets File Metadata, INFO, FILTER, FORMAT, ALT,   *)
(* contig, SAMPLE, PEDIGREE in that order, each with the fixed columns of  *)
(* its category and the rows of its table, empty tables included; all      *)
(* eight have been handed over when save is reached, and the stored file   *)
(* holds exactly these sheets.                                             *)
(***************************************************************************)
SheetNames ==
    <<"File Metadata", "INFO", "FILTER", "FORMAT", "ALT", "contig",
      "SAMPLE", "PEDIGREE">>

SheetColumns ==
    << <<Name, Value>>,
       <<ID, Number, Type, Description, Source, Version>>,
       <<ID, Description>>,
       <<ID, Number, Type, Description>>,
       <<ID, Description>>,
       <<ID, URL>>,
       <<ID, Genomes, Mixture, Description>>,
       <<Name, Genome>> >>

C8_EightSheetsInOrder ==
    /\ Len(sheets) <= 8
    /\ \A k \in 1..Len(sheets) :
           /\ sheets[k].sheet_name = SheetNames[k]
           /\ sheets[k].columns = SheetColumns[k]
           /\ sheets[k].rows = tables[k]
    /\ (pc = "done" \/ (raised = "IOError" /\ writer_open)) => Len(sheets) = 8
    /\ pc = "done" => outfile = sheets
    /\ pc # "done" => outfile = <<>>

\* a stored file with a header-only sheet next to a sheet with a row
C8_Witness ==
    /\ pc = "done"
    /\ Len(outfile) = 8
    /\ outfile[1].rows # <<>>
    /\ outfile[2].rows = <<>>
    /\ outfile[8].rows = <<>>

(***************************************************************************)
(* C9: only the leading two-character marker is removed from a header      *)
(* line.  For the line "##" + name + "=" + value, the row of the key=value *)
(* table has Name = name and Value = value, '#' characters at the start of *)
(* name and at the end of value included.                                  *)
(***************************************************************************)
C9_OnlyTheMarkerIsRemoved ==
    \A n \in KeyParts : \A v \in KeyParts :
        (header = <<KeypairLine(n, v)>> /\ idx > 1)
        => md_keypairs = << (Name :> n) @@ (Value :> v) >>

(***************************************************************************)
(* C10: the input handle and the output writer are both released on every  *)
(* exit path: in every terminal state of the run, after success, after a   *)
(* parse failure or after a write failure, neither is open.                *)
(***************************************************************************)
C10_HandlesReleasedOnEveryExit ==
    pc \in {"done", "failed"} => ~vcf_open /\ ~writer_open

====
